---- MODULE Spec2Model ----
(***************************************************************************)
(* Model of advanced_logging.core.handlers.PostgreSQLHandler: the bounded  *)
(* queue between the logging threads (emit) and the background writer      *)
(* thread (_writer_loop / _write_batch), the connection life cycle and     *)
(* close().                                                                *)
(*                                                                         *)
(* Threads are modelled by program counters:                               *)
(*   hpc  - the constructor (__init__ / _initialize)                       *)
(*   ppc  - one counter per producer thread inside emit                    *)
(*   wpc  - the writer thread inside _writer_loop / _write_batch           *)
(*   cpc  - the thread that calls close()                                  *)
(* Every step is one access to state shared between threads (the queue,    *)
(* running, connected, connection) together with the thread-local code     *)
(* around it.                                                              *)
(***************************************************************************)
EXTENDS Integers, Sequences, FiniteSets, TLC

\* ---------------------------------------------------------------- bounds

\* Number of emit calls made in one behaviour (records are numbered 1..MaxRecords).
MaxRecords == 3

\* Largest buffer_size (queue capacity) tried.
MaxBuffer == 2

\* ------------------------------------------------------ program constants

\* PostgreSQLConfig.batch_size default.
DefaultBatchSize == 10

\* PostgreSQLConfig.flush_interval default (seconds).
DefaultFlushInterval == 5

\* close(): self.writer_thread.join(timeout=10).
JoinTimeout == 10

\* ------------------------------------------------------------ input sets

Producers == {"p1", "p2"}

BufferSizes == 1..MaxBuffer

\* Batch sizes: every record is a batch, a batch of two, and the default
\* (never reached by MaxRecords records, so only partial batches occur).
BatchSizes == {1, 2, DefaultBatchSize}

\* A flush interval below the join timeout (the default) and one above it.
FlushIntervals == {DefaultFlushInterval, 3 * JoinTimeout}

VARIABLES
    buffer_size,     \* config.buffer_size
    batch_size,      \* config.batch_size
    flush_interval,  \* config.flush_interval
    db_up,           \* environment: the PostgreSQL server accepts work
    table,           \* environment: the rows committed to the log table
    log_queue,       \* self.log_queue (queue.Queue(maxsize=buffer_size))
    connection,      \* self.connection: "None", "open" or "closed"
    connected,       \* self.connected
    running,         \* self.running
    logs_written,    \* self.logs_written
    logs_failed,     \* self.logs_failed
    hpc,             \* constructor: "init" before _initialize(), then "ready"
    wpc,             \* writer thread position ("none": thread never started)
    wfinal,          \* writer has left the while loop (write after the loop)
    batch,           \* the writer's local list  batch
    pulled,          \* how the writer's last get ended: "none", "record", "empty"
    ppc,             \* producer position inside emit
    prec,            \* the record a producer is emitting (0: none)
    cpc,             \* position of the thread calling close()
    conn_closes,     \* number of connection.close() calls made
    rollbacks,       \* number of connection.rollback() calls made
    unfinished,      \* self.log_queue.unfinished_tasks
    fpc,             \* position of the thread calling flush()
    escaped,         \* places whose exception reached the caller of the handler
    emitted,         \* history: records in the order emit was called
    dequeued,        \* history: the records the writer pulled, in order
    closed_at,       \* history: emit calls made when close() returned (-1: not yet)
    concurrent,      \* history: some emit started while another was in progress
    instances,       \* LoggerManager._instances: key -> instance number
    managers,        \* the LoggerManager instances: config and _loggers
    registry,        \* the loggers of the logging module, by name
    calls,           \* history: the LoggerManager(config) calls and their results
    sunk,            \* history: the last record handed to the sinks
    record,          \* a LogRecord handed to the formatters and _prepare_record
    logged,          \* history: that record as it was created
    colored_out,     \* what ColoredFormatter.format(record) did
    json_out,        \* what JSONFormatter.format(record) did
    row,             \* what _prepare_record(record) did
    orig_msg,        \* history: record.msg as the caller logged it
    record_msg,      \* record.msg
    mpc,             \* SensitiveDataFilter: "unused", "logged", "filtered"
    record_args,     \* record.args
    rendered,        \* what record.getMessage() did at the sinks
    payload,         \* record.extra_fields of each emitted record
    handlers,        \* logger.handlers of the logger a record is logged on
    hidx,            \* callHandlers: the handler the record is handed to next
    cfpc,            \* ColoredFormatter.format: position and local levelname
    at_enqueue,      \* history: the record as it was when emit enqueued it
    tpc,             \* position of each thread constructing a LoggerManager
    tcfg,            \* the config each thread constructs with
    tself,           \* the instance __new__ returned to each thread (0: none)
    initialized,     \* the instances that have the _initialized attribute
    setups           \* history: the instances _setup_logging ran on, in order

handler_vars ==
    <<buffer_size, batch_size, flush_interval, db_up, table, log_queue,
      connection, connected, running, logs_written, logs_failed, hpc, wpc,
      wfinal, batch, pulled, ppc, prec, cpc, conn_closes, rollbacks,
      unfinished, fpc, escaped, emitted, dequeued, closed_at, concurrent>>

\* The variables of the other components.
mask_vars == <<orig_msg, record_msg, mpc>>

manager_vars == <<instances, managers, registry, calls, sunk>>

record_vars == <<record, logged, colored_out, json_out, row>>

render_vars == <<record_args, rendered>>

dispatch_vars == <<handlers, hidx, cfpc, at_enqueue>>

construct_vars == <<tpc, tcfg, tself, initialized, setups>>

pipeline_vars == <<render_vars, payload, dispatch_vars, construct_vars>>

other_vars == <<manager_vars, mask_vars, record_vars, pipeline_vars>>

vars == <<handler_vars, other_vars>>

config_vars == <<buffer_size, batch_size, flush_interval>>

producer_vars == <<ppc, prec, emitted, concurrent>>

writer_vars == <<wpc, wfinal, batch, pulled, dequeued>>

stat_vars == <<logs_written, logs_failed>>

\* Variables no step of emit, of the writer loop or of close() touches.
flush_vars == <<fpc>>

closer_vars == <<cpc, conn_closes, closed_at>>

\* ------------------------------------------------------- queue.Queue

\* Mutant: the queue is created without maxsize, so it is never full.
QueueFull_Unbounded(q) == FALSE

\* queue.Queue.full() for maxsize > 0.
QueueFull(q) == Len(q) >= buffer_size

\* queue.Queue.put_nowait when it does not raise queue.Full.
QueuePut(q, r) == Append(q, r)

\* queue.Queue.get / get_nowait when it does not raise queue.Empty: the
\* remaining queue after the oldest item is removed.
QueueGet(q) == Tail(q)

\* ---------------------------------------------------- record contents

\* Python values inside extra_fields: an int, a str, None, and an object
\* that json cannot encode (a datetime), each with its text.
PyInt(text) == <<"int", text>>
PyStr(text) == <<"str", text>>
PyNone == <<"None", "None">>
PyObject(text) == <<"object", text>>

\* The value can be encoded by json without a default function.
Encodable(v) == v[1] # "object"

\* json.dumps(d) without a default function raises TypeError: some value of
\* the dict cannot be encoded.
DumpsRaises(d) == \E k \in 1..Len(d) : ~Encodable(d[k][2])

\* The threads that construct a LoggerManager at the same time.
Threads == {"t1", "t2"}

\* The config of a thread that constructs nothing.
NoConfig == [name |-> "", environment |-> "", mask_sensitive |-> FALSE]

\* ------------------------------------------------------- construction

\* __init__ up to the call of _initialize().
HandlerInit ==
    /\ buffer_size \in BufferSizes
    /\ batch_size \in BatchSizes
    /\ flush_interval \in FlushIntervals
    /\ db_up \in BOOLEAN
    /\ table = <<>>
    /\ log_queue = <<>>
    /\ connection = "None"
    /\ connected = FALSE
    /\ running = FALSE
    /\ logs_written = 0
    /\ logs_failed = 0
    /\ hpc = "init"
    /\ wpc = "none"
    /\ wfinal = FALSE
    /\ batch = <<>>
    /\ pulled = "none"
    /\ ppc = [p \in Producers |-> "idle"]
    /\ prec = [p \in Producers |-> 0]
    /\ cpc = "idle"
    /\ conn_closes = 0
    /\ rollbacks = 0
    /\ unfinished = 0
    /\ fpc = "idle"
    /\ escaped = {}
    /\ emitted = <<>>
    /\ dequeued = <<>>
    /\ closed_at = -1
    /\ concurrent = FALSE

\* The value of `sunk` before any record reached a sink.
NoRecord == [by |-> 0]

\* No LoggerManager has been constructed.
NoManager ==
    /\ instances = <<>>
    /\ managers = <<>>
    /\ registry = <<>>
    /\ calls = <<>>
    /\ sunk = NoRecord

\* A call that has not been made: no result yet.
NotCalled == [status |-> "none", value |-> <<>>]

\* No record is at a formatter or at _prepare_record.
NoFormattedRecord ==
    /\ record = <<>>
    /\ logged = <<>>
    /\ colored_out = NotCalled
    /\ json_out = NotCalled
    /\ row = NotCalled

\* No record is at a SensitiveDataFilter.
NoMaskedRecord == orig_msg = <<>> /\ record_msg = <<>> /\ mpc = "unused"

\* The emitted records have no extra_fields.
PlainPayload == payload = [r \in 1..MaxRecords |-> <<>>]

\* No record is rendered at a sink.
NoRender == record_args = <<>> /\ rendered = NotCalled

\* No record is dispatched to the handlers of a logger.
NoDispatch ==
    /\ handlers = <<>>
    /\ hidx = 0
    /\ cfpc = [pc |-> "idle", levelname |-> ""]
    /\ at_enqueue = <<>>

\* No thread constructs a LoggerManager.
NoConstruction ==
    /\ tpc = [t \in Threads |-> "none"]
    /\ tcfg = [t \in Threads |-> NoConfig]
    /\ tself = [t \in Threads |-> 0]
    /\ initialized = {}
    /\ setups = <<>>

\* The state after PostgreSQLHandler.__init__ has set the attributes and
\* before it calls _initialize(); the other components are not in use.
Init ==
    /\ HandlerInit /\ NoManager /\ NoMaskedRecord /\ NoFormattedRecord
    /\ PlainPayload /\ NoRender /\ NoDispatch /\ NoConstruction

\* Mutant: _initialize without its try/except.
Caught_InitializeUnguarded(site) ==
    site \in {"put", "get_nowait", "reput", "connection_close"}

\* The places where a call made on a caller's thread can raise and the
\* except clause that absorbs the exception: the ImportError and the
\* exception of _connect in _initialize (except Exception), queue.Full of
\* the first put_nowait (except queue.Full), queue.Empty and queue.Full in
\* the eviction (bare except), an error of connection.close() in close()
\* (bare except).
Caught(site) ==
    site \in {"import", "connect", "put", "get_nowait", "reput",
              "connection_close"}

\* Where an exception raised at `site` ends up: nowhere when an except
\* clause absorbs it, at the caller otherwise.
Raise(site) == IF Caught(site) THEN {} ELSE {site}

\* _initialize(): import the driver, _connect(), _start_writer_thread(); any
\* exception (ImportError, the exception _connect raises) is printed and
\* swallowed, and it skips the statements that follow it in the try block.
InitializeBody(driver) ==
    /\ hpc = "init"
    /\ hpc' = "ready"
    /\ IF driver /\ db_up
          THEN /\ connection' = "open"
               /\ connected' = TRUE
               /\ running' = TRUE
               /\ wpc' = "loop"
               /\ UNCHANGED escaped
          ELSE /\ connection' = "None"
               /\ connected' = FALSE
               /\ escaped' = escaped \cup Raise(IF driver THEN "connect" ELSE "import")
               /\ UNCHANGED <<running, wpc>>
    /\ UNCHANGED <<other_vars, flush_vars, config_vars, db_up, table, log_queue,
                   unfinished, stat_vars, rollbacks, wfinal, batch, pulled,
                   dequeued, producer_vars, closer_vars>>

Initialize == \E driver \in BOOLEAN : InitializeBody(driver)

\* ------------------------------------------------------------ emit

EmitInProgress(p) == ppc[p] # "idle"

\* Mutant: a blocking put(record) that waits while the queue is full.
EmitPut_Blocking(p) ==
    /\ hpc = "ready"
    /\ ppc[p] = "idle"
    /\ Len(emitted) < MaxRecords
    /\ Len(log_queue) < buffer_size
    /\ emitted' = Append(emitted, Len(emitted) + 1)
    /\ concurrent' = (concurrent \/ \E q \in Producers \ {p} : EmitInProgress(q))
    /\ log_queue' = Append(log_queue, Len(emitted) + 1)
    /\ unfinished' = unfinished + 1
    /\ UNCHANGED <<other_vars, flush_vars, config_vars, db_up, table, connection,
                   connected, running, stat_vars, rollbacks, escaped, hpc,
                   writer_vars, closer_vars, ppc, prec>>

\* A logging thread calls emit(record) on the constructed handler (at any
\* time, also during and after close()): self.log_queue.put_nowait(record),
\* which counts the record as an unfinished task; queue.Full leads to the
\* except branch.
EmitPut(p) ==
    /\ hpc = "ready"
    /\ ppc[p] = "idle"
    /\ Len(emitted) < MaxRecords
    /\ LET r == Len(emitted) + 1 IN
        /\ emitted' = Append(emitted, r)
        /\ IF QueueFull(log_queue)
              THEN /\ escaped' = escaped \cup Raise("put")
                   /\ IF Caught("put")
                         THEN /\ ppc' = [ppc EXCEPT ![p] = "evict"]
                              /\ prec' = [prec EXCEPT ![p] = r]
                         ELSE UNCHANGED <<ppc, prec>>
                   /\ UNCHANGED <<log_queue, unfinished>>
              ELSE /\ log_queue' = QueuePut(log_queue, r)
                   /\ unfinished' = unfinished + 1
                   /\ UNCHANGED <<ppc, prec, escaped>>
    /\ concurrent' = (concurrent \/ \E q \in Producers \ {p} : EmitInProgress(q))
    /\ UNCHANGED <<other_vars, flush_vars, config_vars, db_up, table, connection,
                   connected, running, stat_vars, rollbacks, hpc, writer_vars,
                   closer_vars>>

\* Mutant: on queue.Full the new record is discarded, nothing is evicted.
EmitEvict_DropNew(p) ==
    /\ ppc[p] = "evict"
    /\ ppc' = [ppc EXCEPT ![p] = "idle"]
    /\ prec' = [prec EXCEPT ![p] = 0]
    /\ UNCHANGED <<other_vars, flush_vars, config_vars, db_up, table, log_queue,
                   unfinished, connection, connected, running, stat_vars,
                   rollbacks, escaped, hpc, writer_vars, closer_vars, emitted,
                   concurrent>>

\* except queue.Full: self.log_queue.get_nowait() (without task_done);
\* queue.Empty is swallowed by the bare except and the record is discarded.
EmitEvict(p) ==
    /\ ppc[p] = "evict"
    /\ IF log_queue # <<>>
          THEN /\ log_queue' = QueueGet(log_queue)
               /\ ppc' = [ppc EXCEPT ![p] = "reput"]
               /\ UNCHANGED <<prec, escaped>>
          ELSE /\ ppc' = [ppc EXCEPT ![p] = "idle"]
               /\ prec' = [prec EXCEPT ![p] = 0]
               /\ escaped' = escaped \cup Raise("get_nowait")
               /\ UNCHANGED log_queue
    /\ UNCHANGED <<other_vars, flush_vars, config_vars, db_up, table, unfinished,
                   connection, connected, running, stat_vars, rollbacks, hpc,
                   writer_vars, closer_vars, emitted, concurrent>>

\* self.log_queue.put_nowait(record) after the eviction; queue.Full is
\* swallowed by the bare except and the record is discarded.
EmitReput(p) ==
    /\ ppc[p] = "reput"
    /\ IF QueueFull(log_queue)
          THEN /\ escaped' = escaped \cup Raise("reput")
               /\ UNCHANGED <<log_queue, unfinished>>
          ELSE /\ log_queue' = QueuePut(log_queue, prec[p])
               /\ unfinished' = unfinished + 1
               /\ UNCHANGED escaped
    /\ ppc' = [ppc EXCEPT ![p] = "idle"]
    /\ prec' = [prec EXCEPT ![p] = 0]
    /\ UNCHANGED <<other_vars, flush_vars, config_vars, db_up, table, connection,
                   connected, running, stat_vars, rollbacks, hpc, writer_vars,
                   closer_vars, emitted, concurrent>>

\* The steps of producer p inside emit after its first put_nowait.
EmitStep(p) == EmitEvict(p) \/ EmitReput(p)

\* ------------------------------------------------------ _writer_loop

\* _write_batch(batch) up to its first use of the database:
\* `if not batch: return`, then `if not self.connected: self._connect()`.
WriteBatchEntry(b, ret) ==
    IF b = <<>> THEN ret
    ELSE IF connected THEN "insert" ELSE "connect"

\* Mutant: the loop ends without the write of the pending batch.
WriterLoopTest_NoFinalWrite ==
    /\ wpc = "loop"
    /\ IF running
          THEN /\ wpc' = "get"
               /\ UNCHANGED wfinal
          ELSE /\ wpc' = "done"
               /\ wfinal' = TRUE
    /\ UNCHANGED <<other_vars, flush_vars, config_vars, db_up, table, log_queue,
                   unfinished, connection, connected, running, stat_vars,
                   rollbacks, escaped, hpc, batch, pulled, dequeued,
                   producer_vars, closer_vars>>

\* `while self.running:` and, once the loop is left, `if batch:
\* self._write_batch(batch)`.
WriterLoopTest ==
    /\ wpc = "loop"
    /\ IF running
          THEN /\ wpc' = "get"
               /\ UNCHANGED wfinal
          ELSE /\ wpc' = WriteBatchEntry(batch, "done")
               /\ wfinal' = TRUE
    /\ UNCHANGED <<other_vars, flush_vars, config_vars, db_up, table, log_queue,
                   unfinished, connection, connected, running, stat_vars,
                   rollbacks, escaped, hpc, batch, pulled, dequeued,
                   producer_vars, closer_vars>>

\* Mutant: the batch is written only once it exceeds batch_size.
AfterPull_StrictlyGreater(b) ==
    IF Len(b) > batch_size THEN WriteBatchEntry(b, "loop") ELSE "loop"

\* `if len(batch) >= self.config.batch_size: self._write_batch(batch)`,
\* else the next iteration.
AfterPull(b) ==
    IF Len(b) >= batch_size THEN WriteBatchEntry(b, "loop") ELSE "loop"

\* record = self.log_queue.get(timeout=flush_interval) returns a record:
\* batch.append(record), then the batch-size test.  task_done() is not
\* called.
WriterGetItem ==
    /\ wpc = "get"
    /\ log_queue # <<>>
    /\ batch' = Append(batch, Head(log_queue))
    /\ log_queue' = QueueGet(log_queue)
    /\ dequeued' = Append(dequeued, Head(log_queue))
    /\ pulled' = "record"
    /\ wpc' = AfterPull(batch')
    /\ UNCHANGED <<other_vars, flush_vars, config_vars, db_up, table, unfinished,
                   connection, connected, running, stat_vars, rollbacks,
                   escaped, hpc, wfinal, producer_vars, closer_vars>>

\* The get times out on an empty queue: `except queue.Empty: pass`, then the
\* same batch-size test.
WriterGetTimeout ==
    /\ wpc = "get"
    /\ log_queue = <<>>
    /\ pulled' = "empty"
    /\ wpc' = AfterPull(batch)
    /\ UNCHANGED <<other_vars, flush_vars, config_vars, db_up, table, log_queue,
                   unfinished, connection, connected, running, stat_vars,
                   rollbacks, escaped, hpc, wfinal, batch, dequeued,
                   producer_vars, closer_vars>>

\* Where the writer continues when _write_batch returns: `batch = []` and the
\* next iteration inside the loop, the end of the thread after it (the local
\* list ends with the thread).
WriterReturn ==
    /\ wpc' = IF wfinal THEN "done" ELSE "loop"
    /\ batch' = <<>>

\* Mutant: a failed batch is counted as one failure, whatever its size.
WriteBatchFailed_CountOne ==
    /\ connected' = FALSE
    /\ logs_failed' = logs_failed + 1
    /\ rollbacks' = IF connection # "None" THEN rollbacks + 1 ELSE rollbacks
    /\ UNCHANGED logs_written

\* Mutant: the except branch without the rollback.
WriteBatchFailed_NoRollback ==
    /\ connected' = FALSE
    /\ logs_failed' = logs_failed + Len(batch)
    /\ UNCHANGED <<rollbacks, logs_written>>

\* except Exception in _write_batch: `if self.connection:
\* self.connection.rollback()` (its own failure is swallowed),
\* self.connected = False, self.logs_failed += len(batch).
WriteBatchFailed ==
    /\ connected' = FALSE
    /\ logs_failed' = logs_failed + Len(batch)
    /\ rollbacks' = IF connection # "None" THEN rollbacks + 1 ELSE rollbacks
    /\ UNCHANGED logs_written

\* self._connect() called from _write_batch: a new connection and
\* connected = True, or connected = False and an exception.
WriterConnect ==
    /\ wpc = "connect"
    /\ IF db_up
          THEN /\ connection' = "open"
               /\ connected' = TRUE
               /\ wpc' = "insert"
               /\ UNCHANGED <<stat_vars, rollbacks, batch>>
          ELSE /\ WriteBatchFailed
               /\ WriterReturn
               /\ UNCHANGED connection
    /\ UNCHANGED <<other_vars, flush_vars, config_vars, db_up, table, log_queue,
                   unfinished, running, escaped, hpc, wfinal, pulled, dequeued,
                   producer_vars, closer_vars>>

\* The insert can be committed: the connection object is open and the
\* server is reachable.
CanCommit == connection = "open" /\ db_up

\* data = [self._prepare_record(record) for record in batch] returns: no
\* record of the batch makes _prepare_record raise.
DataPrepared(b) == \A i \in 1..Len(b) : ~DumpsRaises(payload[b[i]])

\* The try block of _write_batch reaches its end from the list of rows on.
InsertCommits == DataPrepared(batch) /\ CanCommit

\* cursor.executemany(...), self.connection.commit(),
\* self.logs_written += len(batch); any exception goes to the except branch.
WriterInsert ==
    /\ wpc = "insert"
    /\ IF InsertCommits
          THEN /\ table' = table \o batch
               /\ logs_written' = logs_written + Len(batch)
               /\ UNCHANGED <<logs_failed, connected, rollbacks>>
          ELSE /\ WriteBatchFailed
               /\ UNCHANGED table
    /\ WriterReturn
    /\ UNCHANGED <<other_vars, flush_vars, config_vars, db_up, log_queue,
                   unfinished, connection, running, escaped, hpc, wfinal,
                   pulled, dequeued, producer_vars, closer_vars>>

\* The writer is inside a database call, which may take arbitrarily long.
WriterInDb == wpc \in {"connect", "insert"}

WriterAlive == wpc \notin {"none", "done"}

\* ------------------------------------------------------------ close

\* close(): self.running = False, then `if self.writer_thread:`.
CloseStart ==
    /\ hpc = "ready"
    /\ cpc = "idle"
    /\ running' = FALSE
    /\ cpc' = IF wpc = "none" THEN "closeconn" ELSE "join"
    /\ UNCHANGED <<other_vars, flush_vars, config_vars, db_up, table, log_queue,
                   unfinished, connection, connected, stat_vars, rollbacks,
                   escaped, hpc, writer_vars, producer_vars, conn_closes,
                   closed_at>>

\* Mutant: join() without a timeout never gives up on a live writer thread.
JoinNeverTimesOut == FALSE

\* self.writer_thread.join(timeout=10) can give up on a live writer thread:
\* the writer is inside a database call, or it waits on the empty queue with
\* a flush interval longer than the join timeout.
JoinCanTimeOut ==
    /\ WriterAlive
    /\ \/ WriterInDb
       \/ wpc = "get" /\ log_queue = <<>> /\ flush_interval > JoinTimeout

\* join returns because the writer thread has ended.
CloseJoinReturn ==
    /\ cpc = "join"
    /\ wpc = "done"
    /\ cpc' = "closeconn"
    /\ UNCHANGED <<other_vars, flush_vars, config_vars, db_up, table, log_queue,
                   unfinished, connection, connected, running, stat_vars,
                   rollbacks, escaped, hpc, writer_vars, producer_vars,
                   conn_closes, closed_at>>

\* join returns after its timeout with the writer thread still alive.
CloseJoinTimeout ==
    /\ cpc = "join"
    /\ JoinCanTimeOut
    /\ cpc' = "closeconn"
    /\ UNCHANGED <<other_vars, flush_vars, config_vars, db_up, table, log_queue,
                   unfinished, connection, connected, running, stat_vars,
                   rollbacks, escaped, hpc, writer_vars, producer_vars,
                   conn_closes, closed_at>>

\* `if self.connection: self.connection.close()` (an error of close(), as on
\* a connection whose server is gone, is swallowed), then super().close().
CloseConnection ==
    /\ cpc = "closeconn"
    /\ cpc' = "done"
    /\ closed_at' = Len(emitted)
    /\ IF connection # "None"
          THEN /\ connection' = "closed"
               /\ conn_closes' = conn_closes + 1
               /\ escaped' = IF db_up THEN escaped
                             ELSE escaped \cup Raise("connection_close")
          ELSE UNCHANGED <<connection, conn_closes, escaped>>
    /\ UNCHANGED <<other_vars, flush_vars, config_vars, db_up, table, log_queue,
                   unfinished, connected, running, stat_vars, rollbacks, hpc,
                   writer_vars, producer_vars>>

\* ------------------------------------------------------------ flush

\* A thread calls flush(): self.log_queue.join().
FlushStart ==
    /\ hpc = "ready"
    /\ fpc = "idle"
    /\ fpc' = "join"
    /\ UNCHANGED <<other_vars, config_vars, db_up, table, log_queue, unfinished,
                   connection, connected, running, stat_vars, rollbacks,
                   escaped, hpc, writer_vars, producer_vars, closer_vars>>

\* queue.Queue.join() returns once unfinished_tasks is zero: every put has
\* been matched by a task_done().
FlushReturn ==
    /\ fpc = "join"
    /\ unfinished = 0
    /\ fpc' = "done"
    /\ UNCHANGED <<other_vars, config_vars, db_up, table, log_queue, unfinished,
                   connection, connected, running, stat_vars, rollbacks,
                   escaped, hpc, writer_vars, producer_vars, closer_vars>>

\* ------------------------------------------------------- environment

\* The PostgreSQL server goes away or comes back.
DbToggle ==
    /\ db_up' = ~db_up
    /\ UNCHANGED <<other_vars, flush_vars, config_vars, table, log_queue,
                   unfinished, connection, connected, running, stat_vars,
                   rollbacks, escaped, hpc, writer_vars, producer_vars,
                   closer_vars>>

\* ------------------------------------------------------ specification

WriterLocalStep == WriterLoopTest \/ WriterGetItem \/ WriterGetTimeout

WriterDbStep == WriterConnect \/ WriterInsert

\* The steps close() takes once it has been called.
CloseProgress == CloseJoinReturn \/ CloseJoinTimeout \/ CloseConnection

Next ==
    \/ Initialize
    \/ \E p \in Producers : EmitPut(p)
    \/ \E p \in Producers : EmitEvict(p)
    \/ \E p \in Producers : EmitReput(p)
    \/ WriterLoopTest
    \/ WriterGetItem
    \/ WriterGetTimeout
    \/ WriterConnect
    \/ WriterInsert
    \/ CloseStart
    \/ CloseJoinReturn
    \/ CloseJoinTimeout
    \/ CloseConnection
    \/ DbToggle

Spec == Init /\ [][Next]_vars

\* The handler with a thread that calls flush().
FlushNext == Next \/ FlushStart \/ FlushReturn

FlushSpec == Init /\ [][FlushNext]_vars

\* The scheduling most favourable to flush(): every emit call runs to its
\* end, the writer's steps are taken, its database calls return, and the
\* join returns when it can.
FlushLiveSpec ==
    FlushSpec /\ WF_vars(\E p \in Producers : EmitStep(p))
              /\ WF_vars(WriterLocalStep) /\ WF_vars(WriterDbStep)
              /\ WF_vars(FlushReturn)

\* Threads that can run are scheduled: the writer's own steps and the steps
\* of close() are taken when they stay enabled.  A database call may never
\* return, so WriterDbStep has no fairness.
LiveSpec == Spec /\ WF_vars(WriterLocalStep) /\ WF_vars(CloseProgress)

\* ============================================================== claims

\* Producer p can make an emit call (fewer than MaxRecords calls were made).
EmitCallable(p) == hpc = "ready" /\ ppc[p] = "idle" /\ Len(emitted) < MaxRecords

\* The last n elements of sequence s.
LastN(s, n) == SubSeq(s, Len(s) - n + 1, Len(s))

AllIdle == \A p \in Producers : ppc[p] = "idle"

\* The emit calls made so far have run one after the other and the writer
\* has pulled nothing from the queue.
SequentialNoDequeue == ~concurrent /\ AllIdle /\ dequeued = <<>>

\* C1: after more than buffer_size sequential emit calls with no dequeue in
\* between, the queue holds exactly the buffer_size most recently emitted
\* records, in emission order (the oldest record is the one evicted).
C1_DropOldest ==
    (SequentialNoDequeue /\ Len(emitted) > buffer_size)
        => log_queue = LastN(emitted, buffer_size)

\* C1 witness: two overflowing emits into a queue of capacity 1 have left
\* the last record in the queue.
C1_Witness ==
    /\ SequentialNoDequeue
    /\ buffer_size = 1
    /\ Len(emitted) = buffer_size + 2
    /\ log_queue = <<Len(emitted)>>

\* C2: in every reachable state the queue depth is between 0 and
\* buffer_size, whatever the interleaving of producers and writer.
C2_DepthBounded == Len(log_queue) >= 0 /\ Len(log_queue) <= buffer_size

\* C2 witness: the queue is full and a producer has just been refused by it,
\* after overlapping emits and with the writer pulling records.
C2_Witness ==
    /\ Len(log_queue) = buffer_size
    /\ concurrent
    /\ dequeued # <<>>
    /\ WriterAlive
    /\ \E p \in Producers : ppc[p] = "evict"

\* Steps an emit call still has to take from each position.
EmitRank(pc) ==
    CASE pc = "evict" -> 2
      [] pc = "reput" -> 1
      [] OTHER -> 0

\* C3: emit never blocks: the first step of an emit call and every later
\* step of a producer inside emit is enabled whatever the queue, the
\* database, the writer and close() are doing, and every step inside emit
\* brings the producer closer to returning (at most three steps per call).
C3_EmitNeverBlocks ==
    /\ [](\A p \in Producers : EmitCallable(p) => ENABLED EmitPut(p))
    /\ [](\A p \in Producers : EmitInProgress(p) => ENABLED EmitStep(p))
    /\ [][\A p \in Producers :
            (EmitInProgress(p) /\ ppc'[p] # ppc[p])
                => EmitRank(ppc'[p]) < EmitRank(ppc[p])]_vars

\* C3 witness: a producer is inside emit, refused by the full queue, with
\* the database down and no writer thread.
C3_Witness ==
    \E p \in Producers :
        /\ ppc[p] = "evict"
        /\ Len(log_queue) = buffer_size
        /\ ~db_up
        /\ wpc = "none"

\* C4: after construction the background writer runs even when the
\* connection attempt made at construction failed, so that emitted records
\* are dequeued and a reconnect is attempted before the next batch write.
C4_WriterRunsAfterFailedConnect ==
    (hpc = "ready" /\ cpc = "idle") => wpc # "none"

\* The writer's step is a get that timed out: it waited on the empty queue
\* and went on.
PullTimesOut == wpc = "get" /\ log_queue = <<>> /\ wpc' # "get"

\* C5: when the writer's pull times out with a non-empty batch smaller than
\* batch_size, the writer attempts to write that batch.
C5_TimeoutFlushesBatch ==
    [][(PullTimesOut /\ batch # <<>> /\ Len(batch) < batch_size)
          => wpc' \in {"connect", "insert"}]_vars

\* The configuration and the emits of the end-to-end scenario: capacity 2,
\* batch size 10, three records emitted one after the other.
C6_Scenario ==
    /\ buffer_size = 2
    /\ batch_size = DefaultBatchSize
    /\ flush_interval = DefaultFlushInterval
    /\ Len(emitted) = 3
    /\ ~concurrent
    /\ AllIdle

\* C6: in the scenario the queue holds R2, R3 after the three emits; and
\* once the writer has pulled both and a further pull has timed out (one
\* flush interval has passed) with the database unavailable, the queue is
\* empty and logs_failed = 2.
C6_EndToEnd ==
    /\ (C6_Scenario /\ dequeued = <<>>) => log_queue = <<2, 3>>
    /\ (C6_Scenario /\ dequeued = <<2, 3>> /\ log_queue = <<>> /\ ~db_up
            /\ wpc = "loop" /\ ~wfinal /\ pulled = "empty" /\ logs_written = 0)
        => logs_failed = 2

\* The writer's step ends a batch write attempt (_write_batch returns).
WriteAttemptEnds == WriterInDb /\ wpc' \notin {"connect", "insert"}

\* C7: a batch write attempt of N records changes exactly one counter by
\* exactly N: logs_written when the N rows were committed, logs_failed
\* otherwise; the counters change at no other step, and the attempt leaves
\* the queue as it is.
C7_OneCounterByBatchSize ==
    [][/\ WriteAttemptEnds =>
            /\ log_queue' = log_queue
            /\ \/ /\ table' = table \o batch
                  /\ logs_written' = logs_written + Len(batch)
                  /\ logs_failed' = logs_failed
               \/ /\ table' = table
                  /\ logs_failed' = logs_failed + Len(batch)
                  /\ logs_written' = logs_written
       /\ (logs_written' # logs_written \/ logs_failed' # logs_failed)
            => WriteAttemptEnds /\ batch # <<>>
       /\ (wpc = "connect" /\ wpc' = "insert") => UNCHANGED <<log_queue, table>>
      ]_vars

\* C7 witness: one batch of two records was committed and a later batch of
\* one record failed.
C7_Witness == logs_written = 2 /\ logs_failed = 1 /\ Len(table) = 2

C9_CloseReturns == (cpc # "idle") ~> (cpc = "done")

\* C9 witness: close() has returned while the writer thread is still inside
\* a database call.
C9_Witness == cpc = "done" /\ WriterInDb

\* C10: after close() has returned, emit is a no-op: no record whose emit
\* call came after that is ever put in the queue.
C10_EmitAfterCloseIsNoOp ==
    closed_at >= 0 => \A i \in 1..Len(log_queue) : log_queue[i] <= closed_at

\* A step in which a connect or an insert of the writer fails.
WriteFails ==
    \/ wpc = "connect" /\ ~db_up /\ wpc' # "connect"
    \/ wpc = "insert" /\ ~InsertCommits /\ wpc' # "insert"

\* C11: no failure of the database sink reaches the host application:
\* construction with the store unreachable or the driver missing, emit in
\* any state and close() never raise to their caller, and a failed connect
\* or insert of the writer shows only in the connected flag and the
\* logs_failed counter (no producer and no closer is disturbed by it).
C11_NoFailurePropagates ==
    /\ [](escaped = {})
    /\ [][WriteFails =>
            /\ ~connected'
            /\ logs_failed' = logs_failed + Len(batch)
            /\ logs_written' = logs_written
            /\ UNCHANGED <<producer_vars, closer_vars, log_queue, running,
                           escaped>>]_vars

\* Construction failed, emit was called MaxRecords times (some calls on a
\* full queue, some after close()), and close() has returned.
C11_Witness ==
    /\ hpc = "ready" /\ wpc = "none" /\ cpc = "done"
    /\ Len(emitted) = MaxRecords /\ AllIdle
    /\ closed_at \in 1..(MaxRecords - 1)
    /\ Len(log_queue) < MaxRecords

\* C19: from any state in which records have been emitted, a flush() call
\* eventually returns.  Stated for the handlers whose writer thread runs and
\* writes every record by itself (batch_size 1), as long as close() is not
\* called.
C19_FlushReturns ==
    (fpc = "join" /\ emitted # <<>> /\ wpc # "none" /\ batch_size = 1
        /\ cpc = "idle")
    ~> (fpc = "done" \/ cpc # "idle")

\* The writer enters _write_batch with a non-empty batch.
WriteBegins == wpc \in {"loop", "get"} /\ wpc' \in {"connect", "insert"}

\* The insert of the current batch raises.
InsertRaises == wpc = "insert" /\ ~InsertCommits /\ wpc' # "insert"

\* C20: a batch write starts with a reconnect exactly when the handler is
\* disconnected, and that reconnect is attempted once (it leads to the insert
\* or ends the write, never to a second attempt); when an insert raises, the
\* transaction is rolled back, the handler becomes disconnected, the batch
\* is dropped (it is neither written nor put back) and the writer continues
\* its loop with an empty batch.
C20_ReconnectOnceAndDropOnFailure ==
    [][ /\ WriteBegins => (wpc' = "connect" <=> ~connected)
        /\ (wpc = "connect" /\ wpc' # "connect") =>
                /\ wpc' = (IF db_up THEN "insert"
                           ELSE IF wfinal THEN "done" ELSE "loop")
                /\ connected' = db_up
        /\ wpc' = "insert" => connected'
        /\ InsertRaises =>
                /\ rollbacks' = rollbacks + 1
                /\ ~connected'
                /\ batch' = <<>>
                /\ logs_failed' = logs_failed + Len(batch)
                /\ UNCHANGED <<table, log_queue, logs_written>>
                /\ wpc' = (IF wfinal THEN "done" ELSE "loop") ]_vars

\* An insert has failed and was rolled back, a later write has reconnected
\* and committed, and the writer is in its loop with an empty batch.
C20_Witness ==
    /\ rollbacks >= 1 /\ logs_failed >= 1 /\ logs_written >= 1
    /\ connected /\ running /\ wpc = "loop" /\ batch = <<>>
    /\ Len(dequeued) = MaxRecords

\* ================================================ SensitiveDataFilter
\*
\* A message is a sequence of tokens, each a string whose characters all
\* belong to one character class of the regular expression of
\* _mask_sensitive_data; the text is their concatenation.

MaxMsgLen == 5
MaxFieldLen == 3

\* r"***MASKED***"
MaskToken == "***MASKED***"

\* The tokens of the messages: two sensitive keys, one of them also in upper
\* case, a separator, a quote, white space and a value.
Tokens == {"password", "token", "TOKEN", "=", "'", " ", "abc"}

SeqsUpTo(S, n) == UNION {[1..k -> S] : k \in 0..n}

\* The tokens that are a sensitive key in some case.
KeyTokens == {"password", "token", "TOKEN"}

\* A sensitive key and what follows it up to the next key.
KeyFields ==
    {<<k>> \o f : k \in KeyTokens,
                  f \in SeqsUpTo(Tokens \ KeyTokens, MaxFieldLen - 1)}

\* The messages logged: every token sequence up to MaxMsgLen and every pair
\* of key fields separated by white space.
Messages ==
    SeqsUpTo(Tokens, MaxMsgLen)
        \cup {a \o <<" ">> \o b : a \in KeyFields, b \in KeyFields}

\* The entries of SENSITIVE_PATTERNS that occur in Tokens, in list order.
SENSITIVE_PATTERNS == <<"password", "token">>

\* ['\"]
QuoteChars == {"'", "\""}

\* \s
SpaceChars == {" ", "\t", "\n"}

\* [:=]
SepChars == {":", "="}

\* The complement of [^'\",\s}]
ValueStop == QuoteChars \cup SpaceChars \cup {",", "}"}

\* str.lower() of a token.
Lower(tok) == IF tok = "TOKEN" THEN "token" ELSE tok

\* `pattern in message` on the lower-cased message.
Contains(text, pattern) == \E i \in 1..Len(text) : Lower(text[i]) = pattern

\* ['\"]? from position j.
SkipOptQuote(t, j) == IF j <= Len(t) /\ t[j] \in QuoteChars THEN j + 1 ELSE j

\* \s* from position j.
RECURSIVE SkipSpace(_, _)
SkipSpace(t, j) ==
    IF j <= Len(t) /\ t[j] \in SpaceChars THEN SkipSpace(t, j + 1) ELSE j

\* [^'\",\s}]* from position j (greedy): the position after the run.
RECURSIVE ValueEnd(_, _)
ValueEnd(t, j) ==
    IF j <= Len(t) /\ t[j] \notin ValueStop THEN ValueEnd(t, j + 1) ELSE j

\* Group 1, ({pattern}['\"]?\s*[:=]\s*['\"]?), matched at position i with
\* re.IGNORECASE: the position after it, 0 when it does not match.
Group1End(t, i, pattern) ==
    IF Lower(t[i]) # pattern THEN 0
    ELSE LET j == SkipSpace(t, SkipOptQuote(t, i + 1)) IN
         IF j > Len(t) \/ t[j] \notin SepChars THEN 0
         ELSE SkipOptQuote(t, SkipSpace(t, j + 1))

\* The whole regular expression matches at position i: group 1 and a
\* non-empty group 2.
MatchAt(t, i, pattern) ==
    LET v == Group1End(t, i, pattern) IN v # 0 /\ ValueEnd(t, v) > v

\* re.sub(regex, r"\1***MASKED***", text) from position i on: the leftmost
\* matches, not overlapping, each replaced by its group 1 and the mask.
RECURSIVE ReSub(_, _, _)
ReSub(t, i, pattern) ==
    IF i > Len(t) THEN <<>>
    ELSE IF MatchAt(t, i, pattern)
        THEN LET v == Group1End(t, i, pattern) IN
             SubSeq(t, i, v - 1) \o <<MaskToken>>
                 \o ReSub(t, ValueEnd(t, v), pattern)
        ELSE <<t[i]>> \o ReSub(t, i + 1, pattern)

\* The loop of _mask_sensitive_data over the patterns from the k-th on.
RECURSIVE MaskFrom(_, _)
MaskFrom(text, k) ==
    IF k > Len(SENSITIVE_PATTERNS) THEN text
    ELSE MaskFrom(ReSub(text, 1, SENSITIVE_PATTERNS[k]), k + 1)

\* Mutant: the substitution is made for the first pattern only.
MaskSensitiveData_FirstPatternOnly(text) ==
    ReSub(text, 1, SENSITIVE_PATTERNS[1])

\* _mask_sensitive_data(text)
MaskSensitiveData(text) == MaskFrom(text, 1)

\* SensitiveDataFilter.filter on record.msg: a non-empty message that
\* contains some pattern is replaced by its masked text.
FilterMsg(msg) ==
    IF msg # <<>> /\ \E k \in 1..Len(SENSITIVE_PATTERNS) :
                        Contains(msg, SENSITIVE_PATTERNS[k])
        THEN MaskSensitiveData(msg)
        ELSE msg

\* The handler is not in use.
HandlerUnused ==
    /\ HandlerInit
    /\ buffer_size = 1 /\ batch_size = 1
    /\ flush_interval = DefaultFlushInterval /\ ~db_up

\* A record with message m reaches the filter.
MaskInit ==
    /\ HandlerUnused /\ NoManager /\ NoFormattedRecord
    /\ PlainPayload /\ NoRender /\ NoDispatch /\ NoConstruction
    /\ orig_msg \in Messages
    /\ record_msg = orig_msg
    /\ mpc = "logged"

\* SensitiveDataFilter.filter(record)
MaskFilter ==
    /\ mpc = "logged"
    /\ record_msg' = FilterMsg(record_msg)
    /\ mpc' = "filtered"
    /\ UNCHANGED pipeline_vars
    /\ UNCHANGED <<handler_vars, manager_vars, record_vars, orig_msg>>

MaskSpec == MaskInit /\ [][MaskFilter]_vars

\* Some sensitive key of the text is followed by a separator and a value
\* that is not the mask alone.
UnmaskedValue(text) ==
    \E k \in 1..Len(SENSITIVE_PATTERNS), i \in 1..Len(text) :
        /\ MatchAt(text, i, SENSITIVE_PATTERNS[k])
        /\ LET v == Group1End(text, i, SENSITIVE_PATTERNS[k]) IN
            SubSeq(text, v, ValueEnd(text, v) - 1) # <<MaskToken>>

\* The sensitive keys followed by a separator and a value in the text.
KeysWithValue(text) ==
    {k \in 1..Len(SENSITIVE_PATTERNS) :
        \E i \in 1..Len(text) : MatchAt(text, i, SENSITIVE_PATTERNS[k])}

\* C15: after the filter no sensitive key of the message is followed by a
\* separator and a value other than the mask, whichever keys the message
\* holds; a message with a key, a separator and a value has been changed
\* and holds the mask; a message without any sensitive key is unchanged.
C15_ValuesMasked ==
    mpc = "filtered" =>
        /\ ~UnmaskedValue(record_msg)
        /\ KeysWithValue(orig_msg) # {} =>
                \E i \in 1..Len(record_msg) : record_msg[i] = MaskToken
        /\ (\A k \in 1..Len(SENSITIVE_PATTERNS) :
                ~Contains(orig_msg, SENSITIVE_PATTERNS[k]))
             => record_msg = orig_msg

\* A message with two distinct keys, each with its own value, was filtered.
C15_Witness ==
    /\ mpc = "filtered"
    /\ KeysWithValue(orig_msg) = {1, 2}
    /\ Len(SelectSeq(record_msg, LAMBDA x : x = MaskToken)) = 2

\* ====================================================== LoggerManager

MaxManagerCalls == 2

\* config.name
Names == {"svc", "svc_eu"}

\* config.environment
Environments == {"prod", "eu_prod"}

\* The argument of get_logger; "" stands for None (both are false in
\* `if name`).
ChildNames == {"", "db"}

\* The messages logged through the handles.
LoggedMessages == {<<"password", "=", "abc">>, <<"abc">>}

\* key = f"{config.name}_{config.environment}"
Key(name, environment) == name \o "_" \o environment

\* logger_name = f"{self.config.name}.{name}" if name else self.config.name
LoggerName(config_name, name) ==
    IF name # "" THEN config_name \o "." \o name ELSE config_name

\* A logger as logging.getLogger creates it.
NewLogger(parent) ==
    [filters |-> <<>>, owner |-> 0, propagate |-> TRUE, parent |-> parent]

\* logging.getLogger(name) in registry r: the logger is created when absent.
GetOrCreate(r, name, parent) ==
    IF name \in DOMAIN r THEN r ELSE (name :> NewLogger(parent)) @@ r

\* The filters _setup_logging adds to the root logger, in order.
ManagerFilters(config) ==
    (IF config.mask_sensitive
        THEN <<[kind |-> "SensitiveDataFilter", environment |-> ""]>>
        ELSE <<>>)
    \o <<[kind |-> "EnvironmentFilter", environment |-> config.environment]>>

\* _setup_logging of manager id in registry r: the logger named config.name
\* gets this manager's handlers in place of any it had, the manager's
\* filters after those it had, and propagate = False.
SetupLogging(r, id, config) ==
    LET r1 == GetOrCreate(r, config.name, "root") IN
    [r1 EXCEPT ![config.name] =
        [filters |-> r1[config.name].filters \o ManagerFilters(config),
         owner |-> id, propagate |-> FALSE, parent |-> "root"]]

\* LoggerManager(config): __new__ looks the key up in _instances and creates
\* an instance when it is absent; __init__ configures a new instance only.
NewManager(name, environment, mask_sensitive) ==
    /\ Len(calls) < MaxManagerCalls
    /\ LET key == Key(name, environment)
           config == [name |-> name, environment |-> environment,
                      mask_sensitive |-> mask_sensitive]
           id == IF key \in DOMAIN instances THEN instances[key]
                 ELSE Len(managers) + 1
       IN /\ IF key \in DOMAIN instances
                THEN UNCHANGED <<instances, managers, registry>>
                ELSE /\ instances' = (key :> id) @@ instances
                     /\ managers' = Append(managers,
                                        [config |-> config, loggers |-> {}])
                     /\ registry' = SetupLogging(registry, id, config)
          /\ calls' = Append(calls, [name |-> name, environment |-> environment,
                                     instance |-> id])
    /\ UNCHANGED pipeline_vars
    /\ UNCHANGED <<handler_vars, mask_vars, record_vars, sunk>>

\* manager.get_logger(name) on instance id.
GetLogger(id, name) ==
    /\ id \in 1..Len(managers)
    /\ LET config_name == managers[id].config.name
           logger_name == LoggerName(config_name, name)
       IN /\ logger_name \notin managers[id].loggers
          /\ managers' = [managers EXCEPT ![id].loggers = @ \cup {logger_name}]
          /\ registry' = GetOrCreate(registry, logger_name, config_name)
    /\ UNCHANGED pipeline_vars
    /\ UNCHANGED <<handler_vars, mask_vars, record_vars, instances, calls, sunk>>

\* One filter applied to a record.
ApplyFilter(f, rec) ==
    IF f.kind = "SensitiveDataFilter"
        THEN [rec EXCEPT !.msg = FilterMsg(rec.msg)]
        ELSE [rec EXCEPT !.environment = f.environment]

\* Filterer.filter: the filters of one logger from the k-th on (all of them
\* return True).
RECURSIVE ApplyFilters(_, _, _)
ApplyFilters(fs, k, rec) ==
    IF k > Len(fs) THEN rec ELSE ApplyFilters(fs, k + 1, ApplyFilter(fs[k], rec))

\* Logger.callHandlers: the handlers of the logger and, while propagate is
\* set, of its ancestors; the result is the managers whose sinks are reached.
RECURSIVE SinksOf(_)
SinksOf(logger_name) ==
    IF logger_name \notin DOMAIN registry THEN {}
    ELSE LET l == registry[logger_name] IN
         (IF l.owner # 0 THEN {l.owner} ELSE {})
            \cup (IF l.propagate THEN SinksOf(l.parent) ELSE {})

\* A record with message msg is logged on a handle that get_logger of
\* instance id returned: Logger.handle applies the filters of that logger
\* only, then callHandlers hands the record to the sinks.
Log(id, handle, msg) ==
    /\ id \in 1..Len(managers)
    /\ handle \in managers[id].loggers
    /\ SinksOf(handle) # {}
    /\ LET rec == ApplyFilters(registry[handle].filters, 1,
                               [msg |-> msg, environment |-> "None"])
       IN sunk' = [by |-> id, handle |-> handle, orig |-> msg,
                   msg |-> rec.msg, environment |-> rec.environment,
                   sinks |-> SinksOf(handle)]
    /\ UNCHANGED pipeline_vars
    /\ UNCHANGED <<handler_vars, mask_vars, record_vars, instances, managers,
                   registry, calls>>

ManagerInit ==
    /\ HandlerUnused /\ NoManager /\ NoMaskedRecord /\ NoFormattedRecord
    /\ PlainPayload /\ NoRender /\ NoDispatch /\ NoConstruction

ManagerNext ==
    \/ \E n \in Names, e \in Environments, m \in BOOLEAN : NewManager(n, e, m)
    \/ \E id \in 1..MaxManagerCalls, c \in ChildNames : GetLogger(id, c)
    \/ \E id \in 1..MaxManagerCalls, c \in ChildNames, msg \in LoggedMessages :
            \E n \in Names : Log(id, LoggerName(n, c), msg)

ManagerSpec == ManagerInit /\ [][ManagerNext]_vars

\* C12: two LoggerManager(config) calls return the same instance if and only
\* if their (name, environment) pairs are equal.
C12_SameInstanceIffSamePair ==
    \A i, j \in 1..Len(calls) :
        (calls[i].instance = calls[j].instance)
            <=> (calls[i].name = calls[j].name
                    /\ calls[i].environment = calls[j].environment)

\* C13: every record that reaches a sink through a handle returned by
\* get_logger carries the environment label of the manager that returned
\* the handle and, when that manager masks, a masked message.
C13_FiltersOnEveryHandle ==
    sunk # NoRecord =>
        LET config == managers[sunk.by].config IN
        /\ sunk.environment = config.environment
        /\ config.mask_sensitive => sunk.msg = FilterMsg(sunk.orig)

\* ============================== formatters and _prepare_record
\*
\* One LogRecord is handed, in any order, to the sinks that share it: a
\* ColoredFormatter, a JSONFormatter and PostgreSQLHandler._prepare_record.

MaxExtraFields == 2

\* record.levelname: levels that have a colour and one that has none.
LevelNames == {"INFO", "ERROR", "TRACE"}

\* ColoredFormatter.COLORS
COLORS ==
    [DEBUG |-> "\\033[36m", INFO |-> "\\033[32m", WARNING |-> "\\033[33m",
     ERROR |-> "\\033[31m", CRITICAL |-> "\\033[35m", RESET |-> "\\033[0m"]

ExtraKeys == {"user_id", "level", "environment"}

ExtraValues == {PyInt("123"), PyStr("login"), PyNone, PyObject("2024-01-01")}

\* The dicts with at most n entries: sequences of <<key, value>> in insertion
\* order, no key twice.
Mappings(n) ==
    {m \in SeqsUpTo(ExtraKeys \X ExtraValues, n) :
        \A i, j \in 1..Len(m) : i # j => m[i][1] # m[j][1]}

\* The records: what varies is the level, whether msg % args succeeds, the
\* exception, the environment attribute and the extra_fields attribute.
Records ==
    {[levelname |-> l, name |-> "svc.db", msg |-> "saved", args_ok |-> a,
      module |-> "views", funcName |-> "get", lineno |-> 10, thread |-> 7,
      threadName |-> "MainThread", process |-> 99, created |-> 1700000000,
      exc_info |-> e, has_environment |-> he, environment |-> "prod",
      has_extra_fields |-> hx, extra_fields |-> x] :
        l \in LevelNames, a \in BOOLEAN, e \in {"None", "ValueError"},
        he \in BOOLEAN, hx \in BOOLEAN, x \in Mappings(MaxExtraFields)}

\* A call that returned a value, and a call that raised.
Returned(value) == [status |-> "returned", value |-> value]
Raised == [status |-> "raised", value |-> <<>>]

\* d[key] = value on a dict: the value is replaced in place when the key
\* exists, the entry is appended otherwise.
DictSet(d, key, value) ==
    IF \E i \in 1..Len(d) : d[i][1] = key
        THEN [i \in 1..Len(d) |-> IF d[i][1] = key THEN <<key, value>> ELSE d[i]]
        ELSE Append(d, <<key, value>>)

\* d.update(other) from the k-th entry of other on.
RECURSIVE DictUpdate(_, _, _)
DictUpdate(d, other, k) ==
    IF k > Len(other) THEN d
    ELSE DictUpdate(DictSet(d, other[k][1], other[k][2]), other, k + 1)

\* d[key]; None when absent (dict.get).
DictGet(d, key) ==
    IF \E i \in 1..Len(d) : d[i][1] = key
        THEN d[CHOOSE i \in 1..Len(d) : d[i][1] = key][2]
        ELSE PyNone

\* A str between double quotes.
Quote(text) == "\"" \o text \o "\""

\* json.dumps of one value with default=str: a value json cannot encode is
\* encoded as the string str(value).
EncodeValue(v) ==
    IF v[1] = "int" THEN v[2]
    ELSE IF v[1] = "None" THEN "null"
    ELSE Quote(v[2])

\* The entries of a dict from the k-th on, as JSON tokens.
RECURSIVE EncodeEntries(_, _)
EncodeEntries(d, k) ==
    IF k > Len(d) THEN <<>>
    ELSE <<Quote(d[k][1]), ": ", EncodeValue(d[k][2])>>
            \o (IF k < Len(d) THEN <<", ">> ELSE <<>>)
            \o EncodeEntries(d, k + 1)

\* json.dumps(d): the text as its sequence of tokens.
JsonDumps(d) == <<"{">> \o EncodeEntries(d, 1) \o <<"}">>

\* The values json.loads can give for the tokens of the model.
JsonValues ==
    {v \in ExtraValues : Encodable(v)}
        \cup {PyStr(v[2]) : v \in ExtraValues}
        \cup {PyStr(l) : l \in LevelNames}
        \cup {PyStr(COLORS[l] \o l \o COLORS.RESET) :
                l \in LevelNames \cap DOMAIN COLORS}
        \cup {PyStr("prod")}

\* json.loads of one value token; the tokens of the other fields are kept
\* as raw text.
DecodeValue(token) ==
    IF \E v \in JsonValues : EncodeValue(v) = token
        THEN CHOOSE v \in JsonValues : EncodeValue(v) = token
        ELSE <<"raw", token>>

\* The key of a key token.
DecodeKey(token) ==
    IF \E k \in ExtraKeys : Quote(k) = token
        THEN CHOOSE k \in ExtraKeys : Quote(k) = token
        ELSE token

\* json.loads of an object text: its entries from token position j on,
\* later entries replacing earlier ones of the same key.
RECURSIVE DecodeEntries(_, _, _)
DecodeEntries(text, j, d) ==
    IF j + 2 > Len(text) THEN d
    ELSE DecodeEntries(text, j + 4,
            DictSet(d, DecodeKey(text[j]), DecodeValue(text[j + 2])))

JsonLoads(text) == DecodeEntries(text, 2, <<>>)

\* record.getMessage() raises when msg % args fails.
GetMessageRaises(rec) == ~rec.args_ok

\* The exception text formatException gives.
FormatException(exc_info) == "Traceback: " \o exc_info

\* The record has the attribute named by a format field.
HasField(rec, field) == field # "environment" \/ rec.has_environment

\* The text of a format field.
FieldText(rec, field) ==
    IF field = "levelname" THEN rec.levelname
    ELSE IF field = "environment" THEN rec.environment
    ELSE rec.msg

\* logging.Formatter.format raises: getMessage fails, or the format string
\* names an attribute the record lacks.
FormatRaises(rec, fmt) ==
    GetMessageRaises(rec) \/ \E k \in 1..Len(fmt) : ~HasField(rec, fmt[k])

\* logging.Formatter.format(record) for a format string with the fields
\* fmt: the field texts, then the exception text when there is one.
FormatterFormat(rec, fmt) ==
    [k \in 1..Len(fmt) |-> FieldText(rec, fmt[k])]
        \o (IF rec.exc_info # "None"
               THEN <<FormatException(rec.exc_info)>> ELSE <<>>)

\* The format strings given to ColoredFormatter, by their fields.
ColoredFormats ==
    {<<"levelname", "message">>, <<"levelname", "environment", "message">>}

\* The level name between its colour and RESET; unchanged without a colour.
Colorize(levelname) ==
    IF levelname \in DOMAIN COLORS
        THEN COLORS[levelname] \o levelname \o COLORS.RESET
        ELSE levelname

\* ColoredFormatter.format(record): the level name is wrapped, the record is
\* formatted, and the level name is put back by the statement that follows
\* super().format(record), which is not reached when that call raises.
ColoredFormat(fmt) ==
    /\ record # <<>>
    /\ colored_out = NotCalled
    /\ LET wrapped == [record EXCEPT !.levelname = Colorize(record.levelname)]
       IN IF FormatRaises(wrapped, fmt)
             THEN /\ record' = wrapped
                  /\ colored_out' = Raised
             ELSE /\ record' = [wrapped EXCEPT !.levelname = record.levelname]
                  /\ colored_out' = Returned(FormatterFormat(wrapped, fmt))
    /\ UNCHANGED pipeline_vars
    /\ UNCHANGED <<handler_vars, manager_vars, mask_vars, logged, json_out, row>>

\* datetime.utcnow().isoformat()
UtcNow == "2024-01-01T00:00:00"

\* Mutant: the environment is set before the extra fields are merged.
LogData_ExtraFieldsLast(rec) ==
    LET fixed == <<
            <<"timestamp", PyStr(UtcNow)>>,
            <<"level", PyStr(rec.levelname)>>,
            <<"logger", PyStr(rec.name)>>,
            <<"message", PyStr(rec.msg)>>,
            <<"module", PyStr(rec.module)>>,
            <<"function", PyStr(rec.funcName)>>,
            <<"line", PyInt(ToString(rec.lineno))>> >>
        with_exc ==
            IF rec.exc_info # "None"
                THEN DictSet(fixed, "exception",
                             PyStr(FormatException(rec.exc_info)))
                ELSE fixed
        with_env ==
            IF rec.has_environment
                THEN DictSet(with_exc, "environment", PyStr(rec.environment))
                ELSE with_exc
    IN IF rec.has_extra_fields
          THEN DictUpdate(with_env, rec.extra_fields, 1)
          ELSE with_env

\* log_data of JSONFormatter.format: the fixed keys, the exception, then
\* log_data.update(record.extra_fields), then log_data['environment'].
LogData(rec) ==
    LET fixed == <<
            <<"timestamp", PyStr(UtcNow)>>,
            <<"level", PyStr(rec.levelname)>>,
            <<"logger", PyStr(rec.name)>>,
            <<"message", PyStr(rec.msg)>>,
            <<"module", PyStr(rec.module)>>,
            <<"function", PyStr(rec.funcName)>>,
            <<"line", PyInt(ToString(rec.lineno))>> >>
        with_exc ==
            IF rec.exc_info # "None"
                THEN DictSet(fixed, "exception",
                             PyStr(FormatException(rec.exc_info)))
                ELSE fixed
        with_extra ==
            IF rec.has_extra_fields
                THEN DictUpdate(with_exc, rec.extra_fields, 1)
                ELSE with_exc
    IN IF rec.has_environment
          THEN DictSet(with_extra, "environment", PyStr(rec.environment))
          ELSE with_extra

\* JSONFormatter.format(record): json.dumps(log_data, default=str).
JSONFormat ==
    /\ record # <<>>
    /\ json_out = NotCalled
    /\ json_out' = IF GetMessageRaises(record) THEN Raised
                   ELSE Returned(JsonDumps(LogData(record)))
    /\ UNCHANGED pipeline_vars
    /\ UNCHANGED <<handler_vars, manager_vars, mask_vars, record, logged,
                   colored_out, row>>

\* datetime.fromtimestamp(record.created)
FromTimestamp(created) == <<"datetime", created>>

\* socket.gethostname()
Hostname == "host-1"

\* The columns of the INSERT statement of _write_batch, in order.
InsertColumns ==
    <<"timestamp", "level", "logger_name", "message",
      "module", "function", "line_number",
      "thread_id", "thread_name", "process_id",
      "exception", "extra_data", "environment", "hostname">>

\* A null column value.
SqlNull == <<"NULL">>

\* Handler.format(record) of a handler without a formatter: the default
\* Formatter, "%(message)s" and the exception text.
HandlerFormat(rec) ==
    IF rec.exc_info # "None"
        THEN rec.msg \o "\n" \o FormatException(rec.exc_info)
        ELSE rec.msg

\* extra_data = {} unless the record has extra_fields.
ExtraData(rec) == IF rec.has_extra_fields THEN rec.extra_fields ELSE <<>>

\* json.dumps(extra_data) if extra_data else None
ExtraDataColumn(rec) ==
    IF ExtraData(rec) # <<>> THEN JsonDumps(ExtraData(rec)) ELSE SqlNull

\* Mutant: module and function change places in the tuple.
RowOf_FunctionBeforeModule(rec) ==
    <<FromTimestamp(rec.created), rec.levelname, rec.name, HandlerFormat(rec),
      rec.funcName, rec.module, rec.lineno, rec.thread, rec.threadName,
      rec.process,
      IF rec.exc_info # "None" THEN <<"str", rec.exc_info>> ELSE SqlNull,
      ExtraDataColumn(rec),
      IF rec.has_environment THEN rec.environment ELSE "unknown",
      Hostname>>

\* The tuple _prepare_record returns (the handler has no formatter, so the
\* exception column is str(record.exc_info)).
RowOf(rec) ==
    <<FromTimestamp(rec.created), rec.levelname, rec.name, HandlerFormat(rec),
      rec.module, rec.funcName, rec.lineno, rec.thread, rec.threadName,
      rec.process,
      IF rec.exc_info # "None" THEN <<"str", rec.exc_info>> ELSE SqlNull,
      ExtraDataColumn(rec),
      IF rec.has_environment THEN rec.environment ELSE "unknown",
      Hostname>>

\* _prepare_record raises: self.format(record) fails, or json.dumps (called
\* without a default function) meets a value it cannot encode.
PrepareRaises(rec) ==
    \/ GetMessageRaises(rec)
    \/ DumpsRaises(ExtraData(rec))

\* _prepare_record(record)
PrepareRecord ==
    /\ record # <<>>
    /\ row = NotCalled
    /\ row' = IF PrepareRaises(record) THEN Raised ELSE Returned(RowOf(record))
    /\ UNCHANGED pipeline_vars
    /\ UNCHANGED <<handler_vars, manager_vars, mask_vars, record, logged,
                   colored_out, json_out>>

RecordInit ==
    /\ HandlerUnused /\ NoManager /\ NoMaskedRecord
    /\ PlainPayload /\ NoRender /\ NoDispatch /\ NoConstruction
    /\ record \in {r \in Records : r.has_extra_fields \/ r.extra_fields = <<>>}
    /\ logged = record
    /\ colored_out = NotCalled
    /\ json_out = NotCalled
    /\ row = NotCalled

RecordNext ==
    \/ \E fmt \in ColoredFormats : ColoredFormat(fmt)
    \/ JSONFormat
    \/ PrepareRecord

RecordSpec == RecordInit /\ [][RecordNext]_vars

\* C14: ColoredFormatter.format leaves record.levelname as it was before the
\* call, for every record and level, and a JSONFormatter run on the record
\* afterwards gives the level it gives for the record as it was created.
C14_LevelNameRestored ==
    colored_out # NotCalled =>
        /\ record.levelname = logged.levelname
        /\ json_out.status = "returned" =>
              DictGet(JsonLoads(json_out.value), "level")
                = DictGet(JsonLoads(JsonDumps(LogData(logged))), "level")

\* The top-level value of the JSON object under a key.
TopLevel(key) == DictGet(JsonLoads(json_out.value), key)

\* C16 as stated: every entry of extra_fields is at the top level of the
\* JSON object with exactly the value supplied, whatever its key.
C16_ExtraFieldsAtTopLevel ==
    (json_out.status = "returned" /\ logged.has_extra_fields) =>
        \A k \in 1..Len(logged.extra_fields) :
            TopLevel(logged.extra_fields[k][1]) = logged.extra_fields[k][2]

\* C16, amended: every entry of extra_fields whose key is not "environment"
\* is at the top level of the JSON object, with the value supplied when json
\* can encode it and with the string str(value) otherwise; on a record that
\* has the environment attribute the top-level "environment" is that
\* attribute, whatever extra_fields holds under that key.
C16_Amended ==
    (json_out.status = "returned" /\ logged.has_extra_fields) =>
        \A k \in 1..Len(logged.extra_fields) :
            LET key == logged.extra_fields[k][1]
                value == logged.extra_fields[k][2]
            IN TopLevel(key) =
                IF key = "environment" /\ logged.has_environment
                    THEN PyStr(logged.environment)
                ELSE IF Encodable(value) THEN value
                ELSE PyStr(value[2])

\* A record with the environment attribute and two extra fields, one of them
\* under the key "environment", has been formatted as JSON.
C16_Witness ==
    /\ json_out.status = "returned"
    /\ logged.has_extra_fields /\ logged.has_environment
    /\ Len(logged.extra_fields) = 2
    /\ \E k \in 1..2 : /\ logged.extra_fields[k][1] = "environment"
                       /\ logged.extra_fields[k][2] = PyStr("login")

\* What the column of the log table is to hold for a record.
ColumnValue(column, rec) ==
    CASE column = "timestamp" -> FromTimestamp(rec.created)
      [] column = "level" -> rec.levelname
      [] column = "logger_name" -> rec.name
      [] column = "message" -> HandlerFormat(rec)
      [] column = "module" -> rec.module
      [] column = "function" -> rec.funcName
      [] column = "line_number" -> rec.lineno
      [] column = "thread_id" -> rec.thread
      [] column = "thread_name" -> rec.threadName
      [] column = "process_id" -> rec.process
      [] column = "exception" ->
            IF rec.exc_info # "None" THEN <<"str", rec.exc_info>> ELSE SqlNull
      [] column = "extra_data" -> ExtraDataColumn(rec)
      [] column = "environment" ->
            IF rec.has_environment THEN rec.environment ELSE "unknown"
      [] column = "hostname" -> Hostname

\* C17: the row _prepare_record returns has exactly 14 values, the i-th
\* being the value of the i-th column of the INSERT statement: timestamp,
\* level, logger name, message, module, function, line, thread id, thread
\* name, process id, exception, extra data, environment, hostname.
C17_RowInInsertColumnOrder ==
    [][(row = NotCalled /\ row'.status = "returned") =>
            /\ Len(row'.value) = 14
            /\ Len(InsertColumns) = 14
            /\ \A i \in 1..14 :
                    row'.value[i] = ColumnValue(InsertColumns[i], record)]_vars

\* A row was made of a record with an exception, extra fields and the
\* environment attribute.
C17_Witness ==
    /\ row.status = "returned"
    /\ logged.exc_info # "None"
    /\ logged.has_environment
    /\ Len(logged.extra_fields) = MaxExtraFields

\* C18: the extra-data column of the row of a record is null when
\* extra_fields is absent or empty, and otherwise JSON text that re-parses
\* to the key/value pairs of extra_fields.
C18_ExtraDataRoundTrip ==
    (row # NotCalled /\ ~GetMessageRaises(logged)) =>
        /\ row.status = "returned"
        /\ IF ExtraData(logged) = <<>>
              THEN row.value[12] = SqlNull
              ELSE /\ row.value[12] # SqlNull
                   /\ JsonLoads(row.value[12]) = logged.extra_fields

\* The records in the queue.
Queued(q) == {q[i] : i \in 1..Len(q)}

\* C22: with producers emitting concurrently and the writer dequeuing, every
\* emit call ends with its record in the queue: the call that ends at its
\* first put_nowait, and the call that ends after the eviction.
C22_EmitEndsWithRecordQueued ==
    [][ /\ (Len(emitted') > Len(emitted)
                /\ \A p \in Producers : ppc'[p] = ppc[p])
            => Len(emitted') \in Queued(log_queue')
        /\ \A p \in Producers :
            (ppc[p] \in {"evict", "reput"} /\ ppc'[p] = "idle")
                => prec[p] \in Queued(log_queue') ]_vars

\* C24: once started, the writer thread is the only user of the database
\* connection: the caller of close() tests and closes self.connection only
\* when the writer thread is no longer alive.
C24_WriterSoleOwnerOfConnection ==
    [][(cpc = "closeconn" /\ cpc' = "done" /\ connection # "None")
            => ~WriterAlive]_vars

\* C26: after close() has returned, the connected flag that get_statistics
\* reports is False, and in every state it is True only while the handler
\* holds an open connection.
C26_ConnectedOnlyWhileOpen ==
    /\ cpc = "done" => ~connected
    /\ connected => connection = "open"

\* Every emit call of the run has been made and has returned, and close()
\* has not been called yet: what the queue and the writer hold now was
\* queued before close().
AllEmittedBeforeClose ==
    /\ cpc = "idle"
    /\ wpc # "none"
    /\ AllIdle
    /\ Len(emitted) = MaxRecords

\* C27: every record queued before close() was called (and not evicted) is
\* counted once in logs_written or logs_failed by the time the writer thread
\* has exited: nothing is left in the queue or in the batch.
C27_QueuedBeforeCloseIsCounted ==
    [](AllEmittedBeforeClose =>
        [](wpc = "done" =>
            /\ log_queue = <<>>
            /\ batch = <<>>
            /\ Len(dequeued) = logs_written + logs_failed))

\* C30: at every iteration boundary of the writer loop the batch holds fewer
\* than batch_size records, and in every state between two steps of the
\* writer on the queue, the database or the counters, the number of records
\* it has dequeued is logs_written + logs_failed + the batch length.
C30_BatchBoundAndAccounting ==
    /\ wpc = "loop" => Len(batch) < batch_size
    /\ Len(dequeued) = logs_written + logs_failed + Len(batch)

\* C30 witness: back at the loop test with one record of the next batch in
\* hand, after a full batch of two records went through a write attempt.
C30_Witness ==
    /\ wpc = "loop"
    /\ batch_size = 2
    /\ Len(batch) = 1
    /\ logs_written + logs_failed = 2

\* C28: managers with different identities have independent pipelines: the
\* handlers of every manager stay on the logger named after its config,
\* whatever managers are constructed later, and a record logged on the root
\* handle of a manager reaches that manager's sinks tagged with that
\* manager's environment.
C28_ManagersIndependent ==
    /\ \A id \in 1..Len(managers) :
            registry[managers[id].config.name].owner = id
    /\ (sunk # NoRecord /\ sunk.handle = managers[sunk.by].config.name)
            => /\ sunk.by \in sunk.sinks
               /\ sunk.environment = managers[sunk.by].config.environment

\* ------------------------------------------- batches of any records
\*
\* The handler with a reachable database, fed records with extra_fields
\* that json can or cannot encode.

\* record.extra_fields of the emitted records: a dict json.dumps encodes and
\* one with a datetime in it.
ExtraPayloads ==
    {<<<<"user_id", PyInt("123")>>>>, <<<<"at", PyObject("2024-01-01")>>>>}

BatchInit ==
    /\ HandlerInit
    /\ buffer_size = MaxBuffer
    /\ batch_size \in {1, 2}
    /\ flush_interval = DefaultFlushInterval
    /\ db_up
    /\ NoManager /\ NoMaskedRecord /\ NoFormattedRecord
    /\ NoRender /\ NoDispatch /\ NoConstruction
    /\ payload \in [1..MaxRecords -> ExtraPayloads]

BatchNext ==
    \/ Initialize
    \/ \E p \in Producers : EmitPut(p)
    \/ \E p \in Producers : EmitEvict(p)
    \/ \E p \in Producers : EmitReput(p)
    \/ WriterLoopTest
    \/ WriterGetItem
    \/ WriterGetTimeout
    \/ WriterConnect
    \/ WriterInsert

BatchSpec == BatchInit /\ [][BatchNext]_vars

\* The positions of the batch whose record _prepare_record cannot serialize.
Unserializable(b) == {i \in 1..Len(b) : DumpsRaises(payload[b[i]])}

\* C21: a record whose extra_fields cannot be serialized costs at most that
\* record: when a batch is written over a working connection, every other
\* record of the batch is persisted, and logs_failed grows by no more than
\* the number of records that cannot be serialized.
C21_UnserializableCostsOneRecord ==
    [][(wpc = "insert" /\ wpc' # "insert" /\ CanCommit) =>
        /\ \A i \in (1..Len(batch)) \ Unserializable(batch) :
                batch[i] \in Queued(table')
        /\ logs_failed' - logs_failed <= Cardinality(Unserializable(batch))
      ]_vars

\* ------------------------------ one record handed to several handlers
\*
\* Logger.callHandlers hands the same LogRecord object to the handlers of a
\* logger in list order, on the caller's thread; the writer thread of the
\* PostgreSQLHandler serializes the object it finds in the queue.

\* The records logged: no extra_fields.
DispatchRecords ==
    {r \in Records : ~r.has_extra_fields /\ r.extra_fields = <<>>}

\* config.extra_handlers: the PostgreSQLHandler alone, or with a
\* StreamHandler that has a ColoredFormatter before or after it.
ExtraHandlerLists ==
    {<<"postgres">>, <<"colored", "postgres">>, <<"postgres", "colored">>}

\* logger.handlers after _setup_logging in the development environment: the
\* console handler with its ColoredFormatter, then config.extra_handlers.
DispatchInit ==
    /\ HandlerUnused /\ NoManager /\ NoMaskedRecord
    /\ PlainPayload /\ NoRender /\ NoConstruction
    /\ record \in DispatchRecords
    /\ logged = record
    /\ colored_out = NotCalled
    /\ json_out = NotCalled
    /\ row = NotCalled
    /\ handlers \in {<<"colored">> \o x : x \in ExtraHandlerLists}
    /\ hidx = 1
    /\ cfpc = [pc |-> "idle", levelname |-> ""]
    /\ at_enqueue = <<>>

\* The handler callHandlers has reached.
AtHandler(kind) ==
    hidx <= Len(handlers) /\ handlers[hidx] = kind /\ cfpc.pc = "idle"

\* PostgreSQLHandler.emit(record): put_nowait(record) enqueues the object
\* itself.
HandleEmit ==
    /\ AtHandler("postgres")
    /\ at_enqueue' = record
    /\ hidx' = hidx + 1
    /\ UNCHANGED <<handler_vars, manager_vars, mask_vars, record_vars,
                   render_vars, payload, construct_vars, handlers, cfpc>>

\* ColoredFormatter.format, first statements: levelname = record.levelname
\* and, for a level with a colour, record.levelname = the coloured name.
ColoredWrap ==
    /\ AtHandler("colored")
    /\ cfpc' = [pc |-> "wrapped", levelname |-> record.levelname]
    /\ record' = [record EXCEPT !.levelname = Colorize(record.levelname)]
    /\ UNCHANGED <<handler_vars, manager_vars, mask_vars, render_vars, payload,
                   construct_vars, handlers, hidx, at_enqueue, logged,
                   colored_out, json_out, row>>

\* result = super().format(record): when it raises, Handler.handleError
\* absorbs the exception and callHandlers goes on to the next handler.
ColoredSuperFormat(fmt) ==
    /\ cfpc.pc = "wrapped"
    /\ IF FormatRaises(record, fmt)
          THEN /\ colored_out' = Raised
               /\ cfpc' = [pc |-> "idle", levelname |-> ""]
               /\ hidx' = hidx + 1
          ELSE /\ colored_out' = Returned(FormatterFormat(record, fmt))
               /\ cfpc' = [cfpc EXCEPT !.pc = "restore"]
               /\ UNCHANGED hidx
    /\ UNCHANGED <<handler_vars, manager_vars, mask_vars, render_vars, payload,
                   construct_vars, handlers, at_enqueue, record, logged,
                   json_out, row>>

\* record.levelname = levelname; return result
ColoredRestore ==
    /\ cfpc.pc = "restore"
    /\ record' = [record EXCEPT !.levelname = cfpc.levelname]
    /\ cfpc' = [pc |-> "idle", levelname |-> ""]
    /\ hidx' = hidx + 1
    /\ UNCHANGED <<handler_vars, manager_vars, mask_vars, render_vars, payload,
                   construct_vars, handlers, at_enqueue, logged, colored_out,
                   json_out, row>>

\* The writer thread reaches the record: data = [self._prepare_record(record)
\* ...] on the queued object, at any time after it was enqueued.
WriterPrepare ==
    /\ at_enqueue # <<>>
    /\ row = NotCalled
    /\ row' = IF PrepareRaises(record) THEN Raised ELSE Returned(RowOf(record))
    /\ UNCHANGED <<handler_vars, manager_vars, mask_vars, pipeline_vars, record,
                   logged, colored_out, json_out>>

DispatchNext ==
    \/ HandleEmit
    \/ ColoredWrap
    \/ \E fmt \in ColoredFormats : ColoredSuperFormat(fmt)
    \/ ColoredRestore
    \/ WriterPrepare

DispatchSpec == DispatchInit /\ [][DispatchNext]_vars

\* C23: from the emit that enqueued it until the writer has serialized it,
\* the queued record has the attributes it had when it was enqueued, and
\* the row the writer builds is the row of the record as enqueued.
C23_QueuedRecordNotMutated ==
    /\ (at_enqueue # <<>> /\ row = NotCalled) => record = at_enqueue
    /\ (at_enqueue # <<>> /\ row.status = "returned")
            => row.value = RowOf(at_enqueue)

\* ------------------------------------- messages with format arguments
\*
\* logger.info(msg, *args): the SensitiveDataFilter of the logger sees the
\* record first, the sinks render record.getMessage() afterwards.

MaxTemplateLen == 3

\* The tokens of a format string: a sensitive key, a separator, a word,
\* white space and the placeholder %s.
TemplateTokens == {"password", "=", "abc", " ", "%s"}

\* record.msg as the caller gives it.
Templates == SeqsUpTo(TemplateTokens, MaxTemplateLen)

\* record.args: no argument, a word, or a text with a key and its value.
ArgTuples == {<<>>, <<<<"abc">>>>, <<<<"password", "=", "abc">>>>}

\* The number of %s in a format string.
Placeholders(msg) == Len(SelectSeq(msg, LAMBDA tok : tok = "%s"))

\* msg % args from the k-th token on, a being the next argument to use.
RECURSIVE Interpolate(_, _, _, _)
Interpolate(msg, args, k, a) ==
    IF k > Len(msg) THEN <<>>
    ELSE IF msg[k] = "%s"
        THEN args[a] \o Interpolate(msg, args, k + 1, a + 1)
        ELSE <<msg[k]>> \o Interpolate(msg, args, k + 1, a)

\* LogRecord.getMessage(): msg = str(self.msg); if self.args: msg = msg %
\* self.args, which raises TypeError unless every argument is converted by
\* a placeholder of its own.
GetMessage(msg, args) ==
    IF args = <<>> THEN Returned(msg)
    ELSE IF Placeholders(msg) # Len(args) THEN Raised
    ELSE Returned(Interpolate(msg, args, 1, 1))

RenderInit ==
    /\ HandlerUnused /\ NoManager /\ NoFormattedRecord
    /\ PlainPayload /\ NoDispatch /\ NoConstruction
    /\ orig_msg \in Templates
    /\ record_msg = orig_msg
    /\ mpc = "logged"
    /\ record_args \in ArgTuples
    /\ rendered = NotCalled

\* SensitiveDataFilter.filter(record): record.msg is masked, record.args is
\* not looked at.
RenderFilter ==
    /\ mpc = "logged"
    /\ record_msg' = FilterMsg(record_msg)
    /\ mpc' = "filtered"
    /\ UNCHANGED <<handler_vars, manager_vars, record_vars, orig_msg, payload,
                   dispatch_vars, construct_vars, record_args, rendered>>

\* A sink formats the record: Formatter.format calls record.getMessage().
RenderAtSink ==
    /\ mpc = "filtered"
    /\ rendered' = GetMessage(record_msg, record_args)
    /\ mpc' = "rendered"
    /\ UNCHANGED <<handler_vars, manager_vars, record_vars, orig_msg, payload,
                   dispatch_vars, construct_vars, record_msg, record_args>>

RenderNext == RenderFilter \/ RenderAtSink

RenderSpec == RenderInit /\ [][RenderNext]_vars

\* C25: the masker covers the rendered text: whenever msg % args of the
\* record as logged is well formed, the sinks render the filtered record
\* successfully, no sensitive key of the rendered text is followed by a
\* separator and a value other than the mask, and the mask is there when
\* the text as logged had a key with a value.
C25_RenderedMessageMasked ==
    (mpc = "rendered"
        /\ GetMessage(orig_msg, record_args).status = "returned") =>
        /\ rendered.status = "returned"
        /\ ~UnmaskedValue(rendered.value)
        /\ KeysWithValue(GetMessage(orig_msg, record_args).value) # {} =>
                \E i \in 1..Len(rendered.value) : rendered.value[i] = MaskToken

\* ------------------------------------ LoggerManager built by two threads
\*
\* Each thread evaluates LoggerManager(config) once; the statements of
\* __new__ and __init__ of the two threads interleave (no lock is taken).
\* _setup_logging is taken as one step.

\* The configs the threads construct with.
ThreadConfigs ==
    {[name |-> n, environment |-> e, mask_sensitive |-> TRUE] :
        n \in Names, e \in Environments}

ConstructInit ==
    /\ HandlerUnused /\ NoManager /\ NoMaskedRecord /\ NoFormattedRecord
    /\ PlainPayload /\ NoRender /\ NoDispatch
    /\ tpc = [t \in Threads |-> "new"]
    /\ tcfg \in [Threads -> ThreadConfigs]
    /\ tself = [t \in Threads |-> 0]
    /\ initialized = {}
    /\ setups = <<>>

\* key = f"{config.name}_{config.environment}" of the call of thread t.
ThreadKey(t) == Key(tcfg[t].name, tcfg[t].environment)

\* The call of thread t has returned: it is recorded with its result.
CallReturns(t) ==
    calls' = Append(calls, [name |-> tcfg[t].name,
                            environment |-> tcfg[t].environment,
                            instance |-> tself[t]])

\* __new__: `if key not in cls._instances:`
NewTest(t) ==
    /\ tpc[t] = "new"
    /\ tpc' = [tpc EXCEPT ![t] = IF ThreadKey(t) \in DOMAIN instances
                                    THEN "return" ELSE "create"]
    /\ UNCHANGED <<handler_vars, manager_vars, mask_vars, record_vars,
                   render_vars, payload, dispatch_vars, tcfg, tself,
                   initialized, setups>>

\* __new__: instance = super().__new__(cls); cls._instances[key] = instance
NewCreate(t) ==
    /\ tpc[t] = "create"
    /\ managers' = Append(managers, [config |-> NoConfig, loggers |-> {}])
    /\ instances' = (ThreadKey(t) :> Len(managers) + 1) @@ instances
    /\ tpc' = [tpc EXCEPT ![t] = "return"]
    /\ UNCHANGED <<handler_vars, mask_vars, record_vars, render_vars, payload,
                   dispatch_vars, registry, calls, sunk, tcfg, tself,
                   initialized, setups>>

\* __new__: return cls._instances[key]
NewReturn(t) ==
    /\ tpc[t] = "return"
    /\ tself' = [tself EXCEPT ![t] = instances[ThreadKey(t)]]
    /\ tpc' = [tpc EXCEPT ![t] = "init"]
    /\ UNCHANGED <<handler_vars, manager_vars, mask_vars, record_vars,
                   render_vars, payload, dispatch_vars, tcfg, initialized,
                   setups>>

\* __init__: `if hasattr(self, '_initialized'): return`
InitTest(t) ==
    /\ tpc[t] = "init"
    /\ IF tself[t] \in initialized
          THEN /\ tpc' = [tpc EXCEPT ![t] = "done"]
               /\ CallReturns(t)
          ELSE /\ tpc' = [tpc EXCEPT ![t] = "setup"]
               /\ UNCHANGED calls
    /\ UNCHANGED <<handler_vars, mask_vars, record_vars, render_vars, payload,
                   dispatch_vars, instances, managers, registry, sunk, tcfg,
                   tself, initialized, setups>>

\* __init__: self.config = config; self._loggers = {};
\* self._setup_logging()
InitSetup(t) ==
    /\ tpc[t] = "setup"
    /\ managers' = [managers EXCEPT ![tself[t]] =
                        [config |-> tcfg[t], loggers |-> {}]]
    /\ registry' = SetupLogging(registry, tself[t], tcfg[t])
    /\ setups' = Append(setups, tself[t])
    /\ tpc' = [tpc EXCEPT ![t] = "mark"]
    /\ UNCHANGED <<handler_vars, mask_vars, record_vars, render_vars, payload,
                   dispatch_vars, instances, calls, sunk, tcfg, tself,
                   initialized>>

\* __init__: self._initialized = True
SetInitialized(t) ==
    /\ tpc[t] = "mark"
    /\ initialized' = initialized \cup {tself[t]}
    /\ tpc' = [tpc EXCEPT ![t] = "done"]
    /\ CallReturns(t)
    /\ UNCHANGED <<handler_vars, mask_vars, record_vars, render_vars, payload,
                   dispatch_vars, instances, managers, registry, sunk, tcfg,
                   tself, setups>>

ConstructNext ==
    \E t \in Threads :
        \/ NewTest(t)
        \/ NewCreate(t)
        \/ NewReturn(t)
        \/ InitTest(t)
        \/ InitSetup(t)
        \/ SetInitialized(t)

ConstructSpec == ConstructInit /\ [][ConstructNext]_vars

\* C29: two threads that construct LoggerManager with the same (name,
\* environment) at the same time obtain the same instance, _setup_logging
\* has run once, and the logger has one set of filters.
C29_ConcurrentConstructionOnce ==
    \A t, u \in Threads :
        (t # u /\ tpc[t] = "done" /\ tpc[u] = "done" /\ tcfg[t] = tcfg[u]) =>
            /\ tself[t] = tself[u]
            /\ Len(setups) = 1
            /\ registry[tcfg[t].name].filters = ManagerFilters(tcfg[t])

====
